---- MODULE Spec2Model ----
(***************************************************************************)
(* Model of pulp.devel.unit.server.base: the configuration lock-down and   *)
(* reload protocol (_load_test_config, override_config_attrs,              *)
(* restore_config_attrs, block_load_conf), the database lifecycle helpers  *)
(* and the webservice auth fixture PulpWebservicesTests.                   *)
(*                                                                         *)
(* pulp.server.config, pulp.server.db.connection and pulp.server.logs are  *)
(* collaborators whose code is not part of the modelled sources; their     *)
(* effects are modelled from the documented interface.                     *)
(***************************************************************************)
EXTENDS Integers, Sequences, FiniteSets, TLC

VARIABLES
    live,         \* the three live mutator entry points of pulp.server.config
    overridden,   \* config._overridden_attrs: <<>> when absent, else <<record>>
    cfg,          \* settings of the Config Store
    moduleAttr,   \* a module attribute of pulp.server.config set by assignment
    configFiles,  \* the autoload file list of the Config Store
    logging,      \* state of the logging subsystem
    connection,   \* connection._CONNECTION / _DATABASE: <<>> or <<database name>>
    dropped,      \* names of the databases destroyed so far
    pc,           \* position of the harness: "idle" or the step about to run
    caller,       \* which helper the running _load_test_config returns to
    op,           \* the top-level operation last entered
    prev,         \* the top-level operation entered before it
    err,          \* exception the last top-level operation ended in
    raised,       \* exception last raised by a collaborator in that operation
    steps,        \* steps completed by the current/last _load_test_config
    initCalls,    \* number of connection.initialize invocations
    loadCalls,    \* number of _load_test_config invocations
    run,          \* consecutive override_config_attrs calls just made
    callArgs,     \* arguments of the last call through a live entry point
    active,       \* the patches of the auth fixture that are started
    started,      \* the patches the running test's setUp started
    tphase,       \* where the test runner is: none, setUp, body, tearDown
    tidx,         \* the patch the next start()/stop() is for
    authCalls,    \* calls the is_authorized mock recorded in this test
    tresult,      \* how the last fixture step ended
    testsRun,     \* number of tests begun
    vop,          \* the operation last given to validate_auth
    mockUriReturn,\* mock_uri_path.return_value, <<>> while unset
    uriArgs,      \* the segments last given to get_mock_uri_path
    uri           \* what that get_mock_uri_path call returned

cfgVars == <<live, overridden, cfg, moduleAttr, configFiles, logging,
             connection, dropped, pc, caller, op, prev, err, raised, steps,
             initCalls, loadCalls, run, callArgs>>

fixVars == <<active, started, tphase, tidx, authCalls, tresult, testsRun,
             vop, mockUriReturn, uriArgs, uri>>

vars == <<cfgVars, fixVars>>

(* ---------------------------------------------------------------- bounds *)
MaxLoadCalls == 2
MaxRun == 2
MaxTests == 2
MaxAuthCalls == 2
MaxSegs == 2
MaxSegLen == 2

(* ------------------------------------------------------------- constants *)
ProdConf == "/etc/pulp/server.conf"
TestDbName == "pulp_unittest"
TestStorageDir == "/tmp/pulp"

(* ------------------------------------------------------------ exceptions *)
Exc(cls, name, args) == [cls |-> cls, name |-> name, args |-> args]
NoExc == Exc("none", "", <<>>)
NotFound == Exc("RuntimeError", "not in configuration files", <<ProdConf>>)
OtherRuntimeError == Exc("RuntimeError", "other", <<>>)
OtherError == Exc("Exception", "other", <<>>)

\* class _ConfigAlteredDuringTestingError(RuntimeError)
IsRuntimeError(e) == e.cls \in {"RuntimeError", "_ConfigAlteredDuringTestingError"}

(* --------------------------------------- the Config Store (collaborator) *)
DefaultCfg == [dbName |-> "pulp_database", storageDir |-> "/var/lib/pulp"]
ProdCfg == [dbName |-> "pulp_production", storageDir |-> "/var/lib/pulp"]

DbNames == {"pulp_database", "pulp_production", TestDbName}
StorageDirs == {"/var/lib/pulp", TestStorageDir}

\* config.load_configuration(): reload the defaults, then every autoload file
real_load_configuration(files) ==
    IF ProdConf \in files THEN ProdCfg ELSE DefaultCfg

\* config.config.set(section, key, value)
real_config_set(c, section, key, value) ==
    IF section = "database" /\ key = "name" THEN [c EXCEPT !.dbName = value]
    ELSE IF section = "server" /\ key = "storage_dir" THEN [c EXCEPT !.storageDir = value]
    ELSE c

\* config.remove_config_file(path): the possible outcomes, as
\* [files |-> the list afterwards, exc |-> the exception raised]
remove_config_file(files, path) ==
    (IF path \in files
        THEN {[files |-> files \ {path}, exc |-> NoExc]}
        ELSE {[files |-> files, exc |-> NotFound]})
    \cup {[files |-> files, exc |-> e] : e \in {OtherRuntimeError, OtherError}}

(* ------------------------------------------------- guards (base.py 32-47) *)
EntryPoints == {"__setattr__", "load_configuration", "config.set"}

Real(attr) == [kind |-> "real", name |-> attr]

\* _enforce_config(wrapped_func_name) returns the_enforcer bound to the name
_enforce_config(wrapped_func_name) ==
    [kind |-> "sentinel", name |-> wrapped_func_name]

\* a sentinel that returns instead of raising
the_enforcer_returns(wrapped_func_name, args) == NoExc

\* the_enforcer(*args, **kwargs): raises, whatever the arguments
the_enforcer(wrapped_func_name, args) ==
    Exc("_ConfigAlteredDuringTestingError", wrapped_func_name, args)

IsSentinel(f) == f.kind = "sentinel"

\* every sentinel bound to the name of the first
QualifiedName_same(attr) == "pulp.server.config.__setattr__"

\* '.'.join((config.__package__, 'config.' + attr))
QualifiedName(attr) ==
    CASE attr = "__setattr__" -> "pulp.server.config.__setattr__"
      [] attr = "load_configuration" -> "pulp.server.config.load_configuration"
      [] attr = "config.set" -> "pulp.server.config.config.set"

GuardsInstalled == \A a \in EntryPoints : IsSentinel(live[a])
GuardsRemoved == \A a \in EntryPoints : live[a] = Real(a)

\* a capture that is repeated on every call
OverrideRecord_every_call == <<live>>

\* override_config_attrs(): the record is captured once, the sentinels are
\* installed on every call
OverrideRecord ==
    IF overridden = <<>> THEN <<live>> ELSE overridden

\* an install that leaves config.config.set as it is
OverrideLive_no_set ==
    [a \in EntryPoints |->
        IF a = "config.set" THEN live[a] ELSE _enforce_config(QualifiedName(a))]

OverrideLive ==
    [a \in EntryPoints |-> _enforce_config(QualifiedName(a))]

\* a restore that puts back the two module attributes and not config.set
RestoreOutcome_no_set ==
    IF overridden = <<>>
        THEN [live |-> live, exc |-> NoExc]
        ELSE [live |-> [a \in EntryPoints |->
                          IF a = "config.set" THEN live[a] ELSE overridden[1][a]],
              exc |-> NoExc]

\* a restore that reads the record without asking whether it exists
RestoreOutcome_no_check ==
    IF overridden = <<>>
        THEN [live |-> live, exc |-> Exc("AttributeError", "_overridden_attrs", <<>>)]
        ELSE [live |-> [a \in EntryPoints |-> overridden[1][a]], exc |-> NoExc]

\* restore_config_attrs(): no record, nothing to do; else every entry point
\* is set back to the recorded callable
RestoreOutcome ==
    IF overridden = <<>>
        THEN [live |-> live, exc |-> NoExc]
        ELSE [live |-> [a \in EntryPoints |-> overridden[1][a]], exc |-> NoExc]

(* ------------------------------------ calls through the live entry points *)
\* Each gives the possible outcomes of one call through entry point f.
\* A sentinel raises and runs nothing; a real mutator has its effect or,
\* for the reload, fails.
call_setattr(f, m, args) ==
    IF IsSentinel(f)
        THEN {[attr |-> m, exc |-> the_enforcer(f.name, args)]}
        ELSE {[attr |-> args[2], exc |-> NoExc]}

call_load_configuration(f, c, files) ==
    IF IsSentinel(f)
        THEN {[cfg |-> c, exc |-> the_enforcer(f.name, <<>>)]}
        ELSE {[cfg |-> real_load_configuration(files), exc |-> NoExc],
              [cfg |-> c, exc |-> OtherError]}

call_config_set(f, c, args) ==
    IF IsSentinel(f)
        THEN {[cfg |-> c, exc |-> the_enforcer(f.name, args)]}
        ELSE {[cfg |-> real_config_set(c, args[1], args[2], args[3]), exc |-> NoExc]}

\* arguments test bodies pass to config.config.set and to attribute assignment
SetArgs ==
    {<<"database", "name", n>> : n \in {TestDbName, "pulp_production"}}
    \cup {<<"server", "storage_dir", d>> : d \in StorageDirs}
AttrArgs == {<<"_config_files", "patched">>}

(* ------------------------------------------------------------------ Init *)
Init ==
    /\ live = [a \in EntryPoints |-> Real(a)]
    /\ overridden = <<>>
    /\ cfg = real_load_configuration({ProdConf})
    /\ moduleAttr = "unset"
    /\ configFiles = {ProdConf}
    /\ logging = "initial"
    /\ connection = <<>>
    /\ dropped = {}
    /\ pc = "idle"
    /\ caller = "none"
    /\ op = "none"
    /\ prev = "none"
    /\ err = NoExc
    /\ raised = NoExc
    /\ steps = <<>>
    /\ initCalls = 0
    /\ loadCalls = 0
    /\ run = 0
    /\ callArgs = <<>>
    /\ active = {}
    /\ started = {}
    /\ tphase = "none"
    /\ tidx = 0
    /\ authCalls = <<>>
    /\ tresult = "none"
    /\ testsRun = 0
    /\ vop = "none"
    /\ mockUriReturn = <<>>
    /\ uriArgs = <<>>
    /\ uri = <<>>

(* ------------------------------------------------- top-level operations *)
\* entering a top-level operation; run counts the override_config_attrs calls
\* made in a row, kept over the restore_config_attrs calls that follow them
CallOps == {"config.__setattr__", "config.load_configuration", "config.config.set"}

Enter(name) ==
    /\ pc = "idle"
    /\ IF name \in CallOps THEN TRUE ELSE callArgs' = <<>>
    /\ op' = name
    /\ prev' = op
    /\ run' = IF name = "override_config_attrs"
                 THEN (IF run < MaxRun THEN run + 1 ELSE run)
              ELSE IF name = "restore_config_attrs" THEN run
              ELSE 0

\* override_config_attrs(), base.py 75-90
override_config_attrs ==
    /\ Enter("override_config_attrs")
    /\ overridden' = OverrideRecord
    /\ live' = OverrideLive
    /\ err' = NoExc
    /\ raised' = NoExc
    /\ UNCHANGED <<cfg, moduleAttr, configFiles, logging, connection, dropped,
                   pc, caller, steps, initCalls, loadCalls>>
    /\ UNCHANGED fixVars

\* restore_config_attrs(), base.py 93-100
restore_config_attrs ==
    /\ Enter("restore_config_attrs")
    /\ live' = RestoreOutcome.live
    /\ err' = RestoreOutcome.exc
    /\ raised' = NoExc
    /\ UNCHANGED <<overridden, cfg, moduleAttr, configFiles, logging, connection,
                   dropped, pc, caller, steps, initCalls, loadCalls>>
    /\ UNCHANGED fixVars

\* a blocker that catches nothing
Swallowed_nothing(e) == FALSE

\* except RuntimeError: pass  (base.py 110-112)
Swallowed(e) == IsRuntimeError(e)

\* what block_load_conf ends in when remove_config_file raised e
BlockResult(e) == IF Swallowed(e) THEN NoExc ELSE e

\* block_load_conf(), base.py 103-112
block_load_conf ==
    /\ Enter("block_load_conf")
    /\ \E o \in remove_config_file(configFiles, ProdConf) :
          /\ configFiles' = o.files
          /\ raised' = o.exc
          /\ err' = BlockResult(o.exc)
    /\ UNCHANGED <<live, overridden, cfg, moduleAttr, logging, connection, dropped,
                   pc, caller, steps, initCalls, loadCalls>>
    /\ UNCHANGED fixVars

\* a test body assigns an attribute of the config module through the entry point
test_setattr ==
    /\ Enter("config.__setattr__")
    /\ \E args \in AttrArgs :
       \E o \in call_setattr(live["__setattr__"], moduleAttr, args) :
          /\ callArgs' = args
          /\ moduleAttr' = o.attr
          /\ err' = o.exc
          /\ raised' = o.exc
    /\ UNCHANGED <<live, overridden, cfg, configFiles, logging, connection, dropped,
                   pc, caller, steps, initCalls, loadCalls>>
    /\ UNCHANGED fixVars

\* a test body calls config.load_configuration()
test_load_configuration ==
    /\ Enter("config.load_configuration")
    /\ callArgs' = <<>>
    /\ \E o \in call_load_configuration(live["load_configuration"], cfg, configFiles) :
          /\ cfg' = o.cfg
          /\ err' = o.exc
          /\ raised' = o.exc
    /\ UNCHANGED <<live, overridden, moduleAttr, configFiles, logging, connection,
                   dropped, pc, caller, steps, initCalls, loadCalls>>
    /\ UNCHANGED fixVars

\* a test body calls config.config.set(section, key, value)
test_config_set ==
    /\ Enter("config.config.set")
    /\ \E args \in SetArgs :
       \E o \in call_config_set(live["config.set"], cfg, args) :
          /\ callArgs' = args
          /\ cfg' = o.cfg
          /\ err' = o.exc
          /\ raised' = o.exc
    /\ UNCHANGED <<live, overridden, moduleAttr, configFiles, logging, connection,
                   dropped, pc, caller, steps, initCalls, loadCalls>>
    /\ UNCHANGED fixVars

(* ------------------------------------- _load_test_config, base.py 50-72 *)
\* a loader that restarts logging before it writes the two settings
StepOrder_logging_early ==
    <<"block_load_conf", "restore_config_attrs", "load_configuration",
      "stop_logging", "start_logging", "set_database_name", "set_storage_dir",
      "override_config_attrs">>

\* The loader runs its eight calls in program order; pc names the call about
\* to run.  A call that raises ends the loader and whoever called it.
StepOrder == <<"block_load_conf", "restore_config_attrs", "load_configuration",
               "set_database_name", "set_storage_dir", "stop_logging",
               "start_logging", "override_config_attrs">>

Index(name) == CHOOSE i \in 1..Len(StepOrder) : StepOrder[i] = name

\* where control goes once step `name` returned normally
After(name) ==
    IF Index(name) < Len(StepOrder) THEN StepOrder[Index(name) + 1]
    ELSE IF caller = "start_database_connection" THEN "initialize"
    ELSE "idle"

Proceed(name) ==
    /\ pc' = After(name)
    /\ steps' = Append(steps, name)
    /\ caller' = IF After(name) = "idle" THEN "none" ELSE caller
    /\ err' = NoExc

Propagate(e) ==
    /\ pc' = "idle"
    /\ caller' = "none"
    /\ err' = e
    /\ UNCHANGED steps

Outcome(name, e) == IF e = NoExc THEN Proceed(name) ELSE Propagate(e)

\* _load_test_config() called directly
load_test_config ==
    /\ Enter("_load_test_config")
    /\ loadCalls < MaxLoadCalls
    /\ loadCalls' = loadCalls + 1
    /\ pc' = "block_load_conf"
    /\ caller' = "_load_test_config"
    /\ steps' = <<>>
    /\ err' = NoExc
    /\ raised' = NoExc
    /\ UNCHANGED <<live, overridden, cfg, moduleAttr, configFiles, logging,
                   connection, dropped, initCalls>>
    /\ UNCHANGED fixVars

\* line 55: block_load_conf()
ltc_block_load_conf ==
    /\ pc = "block_load_conf"
    /\ \E o \in remove_config_file(configFiles, ProdConf) :
          /\ configFiles' = o.files
          /\ raised' = o.exc
          /\ Outcome("block_load_conf", BlockResult(o.exc))
    /\ UNCHANGED <<live, overridden, cfg, moduleAttr, logging, connection, dropped,
                   op, prev, initCalls, loadCalls>>
    /\ UNCHANGED <<run, callArgs>>
    /\ UNCHANGED fixVars

\* line 58: restore_config_attrs()
ltc_restore_config_attrs ==
    /\ pc = "restore_config_attrs"
    /\ live' = RestoreOutcome.live
    /\ Outcome("restore_config_attrs", RestoreOutcome.exc)
    /\ UNCHANGED <<overridden, cfg, moduleAttr, configFiles, logging, connection,
                   dropped, op, prev, raised, initCalls, loadCalls>>
    /\ UNCHANGED <<run, callArgs>>
    /\ UNCHANGED fixVars

\* line 61: config.load_configuration()
ltc_load_configuration ==
    /\ pc = "load_configuration"
    /\ \E o \in call_load_configuration(live["load_configuration"], cfg, configFiles) :
          /\ cfg' = o.cfg
          /\ raised' = o.exc
          /\ Outcome("load_configuration", o.exc)
    /\ UNCHANGED <<live, overridden, moduleAttr, configFiles, logging, connection,
                   dropped, op, prev, initCalls, loadCalls>>
    /\ UNCHANGED <<run, callArgs>>
    /\ UNCHANGED fixVars

\* a loader that writes the storage directory twice and never the name
LoaderSetArgs_same_key(name) == <<"server", "storage_dir", TestStorageDir>>

\* the arguments of the config.config.set call at line 64 or 65
LoaderSetArgs(name) ==
    IF name = "set_database_name" THEN <<"database", "name", TestDbName>>
    ELSE <<"server", "storage_dir", TestStorageDir>>

\* lines 64-65: config.config.set(...)
ltc_config_set(name) ==
    /\ pc = name
    /\ \E o \in call_config_set(live["config.set"], cfg, LoaderSetArgs(name)) :
          /\ cfg' = o.cfg
          /\ raised' = o.exc
          /\ Outcome(name, o.exc)
    /\ UNCHANGED <<live, overridden, moduleAttr, configFiles, logging, connection,
                   dropped, op, prev, initCalls, loadCalls>>
    /\ UNCHANGED <<run, callArgs>>
    /\ UNCHANGED fixVars

ltc_set_database_name == ltc_config_set("set_database_name")

ltc_set_storage_dir == ltc_config_set("set_storage_dir")

\* lines 68-69: stop_logging(), start_logging(); either may fail
ltc_logging(name, state) ==
    /\ pc = name
    /\ \E e \in {NoExc, OtherError} :
          /\ logging' = IF e = NoExc THEN state ELSE logging
          /\ raised' = e
          /\ Outcome(name, e)
    /\ UNCHANGED <<live, overridden, cfg, moduleAttr, configFiles, connection,
                   dropped, op, prev, initCalls, loadCalls>>
    /\ UNCHANGED <<run, callArgs>>
    /\ UNCHANGED fixVars

ltc_stop_logging == ltc_logging("stop_logging", "stopped")

ltc_start_logging == ltc_logging("start_logging", "started")

\* line 72: override_config_attrs()
ltc_override_config_attrs ==
    /\ pc = "override_config_attrs"
    /\ overridden' = OverrideRecord
    /\ live' = OverrideLive
    /\ Proceed("override_config_attrs")
    /\ UNCHANGED <<cfg, moduleAttr, configFiles, logging, connection, dropped,
                   op, prev, raised, initCalls, loadCalls>>
    /\ UNCHANGED <<run, callArgs>>
    /\ UNCHANGED fixVars

(* ------------------------------------ database lifecycle, base.py 15-29 *)
\* a helper that never finds a connection
NotConnected_always == TRUE

\* if not connection._CONNECTION
NotConnected == connection = <<>>

\* start_database_connection(): nothing to do once connected, else the
\* loader and then connection.initialize()
start_database_connection ==
    /\ Enter("start_database_connection")
    /\ err' = NoExc
    /\ raised' = NoExc
    /\ IF NotConnected
          THEN /\ loadCalls < MaxLoadCalls
               /\ loadCalls' = loadCalls + 1
               /\ pc' = "block_load_conf"
               /\ caller' = "start_database_connection"
               /\ steps' = <<>>
          ELSE UNCHANGED <<loadCalls, pc, caller, steps>>
    /\ UNCHANGED <<live, overridden, cfg, moduleAttr, configFiles, logging,
                   connection, dropped, initCalls>>
    /\ UNCHANGED fixVars

\* line 29: connection.initialize() opens the database the Config Store names
sdc_initialize ==
    /\ pc = "initialize"
    /\ initCalls' = initCalls + 1
    /\ \E e \in {NoExc, OtherError} :
          /\ connection' = IF e = NoExc THEN <<cfg.dbName>> ELSE connection
          /\ raised' = e
          /\ err' = e
    /\ pc' = "idle"
    /\ caller' = "none"
    /\ UNCHANGED <<live, overridden, cfg, moduleAttr, configFiles, logging,
                   dropped, op, prev, steps, loadCalls>>
    /\ UNCHANGED <<run, callArgs>>
    /\ UNCHANGED fixVars

\* a helper that reads the name from the Config Store
DropTarget_from_config == cfg.dbName

\* connection._DATABASE.name: the database the connection was opened on
DropTarget == connection[1]

\* drop_database(): connection._CONNECTION.drop_database(connection._DATABASE.name)
drop_database ==
    /\ Enter("drop_database")
    /\ IF NotConnected
          THEN /\ err' = Exc("AttributeError", "drop_database", <<>>)
               /\ UNCHANGED dropped
          ELSE /\ err' = NoExc
               /\ dropped' = dropped \cup {DropTarget}
    /\ raised' = NoExc
    /\ UNCHANGED <<live, overridden, cfg, moduleAttr, configFiles, logging,
                   connection, pc, caller, steps, initCalls, loadCalls>>
    /\ UNCHANGED fixVars


(* --------------------- PulpWebservicesTests, base.py 115-160 (fixture) *)
NumPatches == 7
Patches == 1..NumPatches

Operations == {"read", "write"}
\* is_authorized(resource, principal, operation) as test bodies call it
AuthArgs == {<<r, "ws-user", o>> : r \in {"/v2/repositories/", "/v2/tasks/"},
                                   o \in Operations}

\* Strings are sequences of tokens: "/" is the separator, every other token
\* is a run of characters without a separator.
Sep == "/"
Tokens == {Sep, "units", "42"}
Mock == <<Sep, "mock">>

\* line 143: self.mock_uri_path.return_value = "/mock/"
MockUriDefault == <<Sep, "mock", Sep>>

\* the strings of at most n tokens
RECURSIVE StringsUpTo(_)
StringsUpTo(n) ==
    IF n = 0 THEN {<<>>}
    ELSE LET shorter == StringsUpTo(n - 1)
         IN  shorter \cup {Append(w, t) : w \in shorter, t \in Tokens}

Segments == StringsUpTo(MaxSegLen)

\* the argument tuples of at most n segments
RECURSIVE ArgsUpTo(_)
ArgsUpTo(n) ==
    IF n = 0 THEN {<<>>}
    ELSE LET shorter == ArgsUpTo(n - 1)
         IN  shorter \cup {Append(a, g) : a \in shorter, g \in Segments}

StartsWithSep(w) == Len(w) > 0 /\ w[1] = Sep
EndsWithSep(w) == Len(w) > 0 /\ w[Len(w)] = Sep

\* os.path.join(a, *p) of posixpath: an absolute component starts over, a
\* separator is put in only where the path so far does not end in one
RECURSIVE os_path_join(_, _)
os_path_join(path, p) ==
    IF p = <<>> THEN path
    ELSE LET b == Head(p)
             joined == IF StartsWithSep(b) THEN b
                       ELSE IF path = <<>> \/ EndsWithSep(path) THEN path \o b
                       ELSE path \o <<Sep>> \o b
         IN  os_path_join(joined, Tail(p))

\* a helper that leaves the trailing separator out
get_mock_uri_path_bare(args) == os_path_join(Mock, args)

\* get_mock_uri_path(*args), lines 162-167
get_mock_uri_path(args) == os_path_join(Mock, args) \o <<Sep>>

\* a test calls self.get_mock_uri_path(*args)
body_get_mock_uri_path ==
    /\ tphase = "body"
    /\ \E args \in ArgsUpTo(MaxSegs) :
          /\ uriArgs' = args
          /\ uri' = get_mock_uri_path(args)
    /\ UNCHANGED <<active, started, tphase, tidx, authCalls, tresult, testsRun,
                   vop, mockUriReturn>>
    /\ UNCHANGED cfgVars

\* unittest runs setUp; the patch objects of lines 122-131 are created, the
\* mocks of the previous test are gone
run_test ==
    /\ tphase = "none"
    /\ testsRun < MaxTests
    /\ testsRun' = testsRun + 1
    /\ tphase' = "setUp"
    /\ tidx' = 1
    /\ started' = {}
    /\ authCalls' = <<>>
    /\ tresult' = "running"
    /\ mockUriReturn' = <<>>
    /\ UNCHANGED <<active, vop, uriArgs, uri>>
    /\ UNCHANGED cfgVars

\* where the runner goes when setUp raised: unittest reports the error and
\* does not call tearDown
AfterSetUpError == "none"

\* lines 132-143: self.patchN.start(), in order; a start may raise
setUp_start ==
    /\ tphase = "setUp"
    /\ \E ok \in BOOLEAN :
          IF ok
             THEN /\ active' = active \cup {tidx}
                  /\ started' = started \cup {tidx}
                  /\ tphase' = IF tidx = NumPatches THEN "body" ELSE "setUp"
                  /\ tidx' = IF tidx = NumPatches THEN 0 ELSE tidx + 1
                  /\ mockUriReturn' = IF tidx = NumPatches THEN MockUriDefault
                                      ELSE mockUriReturn
                  /\ UNCHANGED tresult
             ELSE /\ tphase' = AfterSetUpError
                  /\ tidx' = 0
                  /\ tresult' = "setUp error"
                  /\ UNCHANGED <<active, started, mockUriReturn>>
    /\ UNCHANGED <<authCalls, testsRun, vop, uriArgs, uri>>
    /\ UNCHANGED cfgVars

\* the test body reaches the mocked user_query_manager().is_authorized
body_is_authorized ==
    /\ tphase = "body"
    /\ Len(authCalls) < MaxAuthCalls
    /\ \E c \in AuthArgs : authCalls' = Append(authCalls, c)
    /\ UNCHANGED <<active, started, tphase, tidx, tresult, testsRun,
                   vop, mockUriReturn, uriArgs, uri>>
    /\ UNCHANGED cfgVars

\* mock.ANY compares equal to everything
ANY == "mock.ANY"
ArgsMatch(actual, expected) ==
    /\ Len(actual) = Len(expected)
    /\ \A i \in 1..Len(expected) : expected[i] = ANY \/ expected[i] = actual[i]

\* an assertion on the last call alone, whatever the number of calls
assert_called_with(calls, expected) ==
    /\ Len(calls) >= 1
    /\ ArgsMatch(calls[Len(calls)], expected)

\* Mock.assert_called_once_with: the call count is 1 and the last call
\* matches the expected arguments
assert_called_once_with(calls, expected) ==
    /\ Len(calls) = 1
    /\ ArgsMatch(calls[Len(calls)], expected)

\* validate_auth(operation), lines 154-160; a failed assertion ends the body
body_validate_auth ==
    /\ tphase = "body"
    /\ \E o \in Operations :
          /\ vop' = o
          /\ IF assert_called_once_with(authCalls, <<ANY, ANY, o>>)
                THEN /\ tresult' = "validated"
                     /\ UNCHANGED <<tphase, tidx>>
                ELSE /\ tresult' = "AssertionError"
                     /\ tphase' = "tearDown"
                     /\ tidx' = 1
    /\ UNCHANGED <<active, started, authCalls, testsRun, mockUriReturn, uriArgs, uri>>
    /\ UNCHANGED cfgVars

\* the test body returns; unittest calls tearDown
body_end ==
    /\ tphase = "body"
    /\ tphase' = "tearDown"
    /\ tidx' = 1
    /\ UNCHANGED <<active, started, authCalls, tresult, testsRun,
                   vop, mockUriReturn, uriArgs, uri>>
    /\ UNCHANGED cfgVars

\* lines 146-152: self.patchN.stop(), in order; a stop that raises ends tearDown
tearDown_stop ==
    /\ tphase = "tearDown"
    /\ \E ok \in BOOLEAN :
          IF ok
             THEN /\ active' = active \ {tidx}
                  /\ tphase' = IF tidx = NumPatches THEN "none" ELSE "tearDown"
                  /\ tidx' = IF tidx = NumPatches THEN 0 ELSE tidx + 1
                  /\ tresult' = IF tidx = NumPatches /\ tresult = "running"
                                   THEN "ok" ELSE tresult
             ELSE /\ tphase' = "none"
                  /\ tidx' = 0
                  /\ tresult' = "tearDown error"
                  /\ UNCHANGED active
    /\ UNCHANGED <<started, authCalls, testsRun, vop, mockUriReturn, uriArgs, uri>>
    /\ UNCHANGED cfgVars

FixtureNext ==
    \/ run_test
    \/ setUp_start
    \/ body_is_authorized
    \/ body_validate_auth
    \/ body_end
    \/ tearDown_stop

SpecFixture == Init /\ [][FixtureNext]_vars

\* setUp and the URI helper alone
UriNext ==
    \/ run_test
    \/ setUp_start
    \/ body_get_mock_uri_path

SpecUri == Init /\ [][UriNext]_vars

(* ------------------------------------------------------- specification *)
Next ==
    \/ override_config_attrs
    \/ restore_config_attrs
    \/ block_load_conf
    \/ test_setattr
    \/ test_load_configuration
    \/ test_config_set
    \/ load_test_config
    \/ ltc_block_load_conf
    \/ ltc_restore_config_attrs
    \/ ltc_load_configuration
    \/ ltc_set_database_name
    \/ ltc_set_storage_dir
    \/ ltc_stop_logging
    \/ ltc_start_logging
    \/ ltc_override_config_attrs
    \/ start_database_connection
    \/ sdc_initialize
    \/ drop_database

Spec == Init /\ [][Next]_vars

\* a test run: start_database_connection calls and calls of the guarded
\* mutators from test bodies, nothing else
RunNext ==
    \/ start_database_connection
    \/ ltc_block_load_conf
    \/ ltc_restore_config_attrs
    \/ ltc_load_configuration
    \/ ltc_set_database_name
    \/ ltc_set_storage_dir
    \/ ltc_stop_logging
    \/ ltc_start_logging
    \/ ltc_override_config_attrs
    \/ sdc_initialize
    \/ test_setattr
    \/ test_load_configuration
    \/ test_config_set

SpecRun == Init /\ [][RunNext]_vars

TypeOK ==
    /\ pc \in {"idle", "initialize"} \cup {StepOrder[i] : i \in 1..Len(StepOrder)}
    /\ cfg.dbName \in DbNames /\ cfg.storageDir \in StorageDirs
    /\ Len(overridden) <= 1
    /\ Len(connection) <= 1
    /\ initCalls <= loadCalls /\ loadCalls <= MaxLoadCalls
    /\ active \subseteq Patches /\ started \subseteq Patches
    /\ tidx \in 0..NumPatches

(* ================================================================ claims *)
TamperError == "_ConfigAlteredDuringTestingError"
MutatorOps == {"config.__setattr__", "config.load_configuration", "config.config.set"}

C2_RestoreAfterOverrides ==
    [][(op = "override_config_attrs" /\ run >= 1 /\ restore_config_attrs)
        => \A a \in EntryPoints : live'[a] = Real(a)]_vars

\* two override calls in a row, then a restore
C2_Witness ==
    /\ op = "restore_config_attrs"
    /\ run = 2
    /\ GuardsRemoved

\* C3: at every invocation of connection.initialize the Config Store names
\* the test database and the test storage directory, the production file is
\* not in the autoload list and the guards are installed.
C3_InitializeAfterTestConfig ==
    pc = "initialize" =>
        /\ cfg.dbName = TestDbName
        /\ cfg.storageDir = TestStorageDir
        /\ ProdConf \notin configFiles
        /\ GuardsInstalled

\* C4: when _load_test_config returns, the database name is pulp_unittest,
\* the storage directory is /tmp/pulp and the three guards are installed.
C4_LoaderPostcondition ==
    [][ltc_override_config_attrs
        => /\ cfg'.dbName = TestDbName
           /\ cfg'.storageDir = TestStorageDir
           /\ GuardsInstalled']_vars

\* the loader returned from a start where the guards were already installed,
\* the record existed and the production file was already blocked
C4_Witness ==
    /\ pc = "idle"
    /\ op = "_load_test_config"
    /\ loadCalls = 2
    /\ steps = StepOrder
    /\ raised = NoExc
    /\ GuardsInstalled
    /\ cfg.dbName = TestDbName

\* the program state, without the observers op, prev, err, raised and run
ProgramState == <<live, overridden, cfg, moduleAttr, configFiles, logging,
                  connection, dropped, pc, caller, steps, initCalls, loadCalls>>

\* C5: a start_database_connection call made while the shared connection is
\* set runs neither _load_test_config nor connection.initialize and changes
\* no state.
C5_SecondStartIsNoOp ==
    [][(start_database_connection /\ connection # <<>>)
        => /\ UNCHANGED ProgramState
           /\ pc' = "idle"
           /\ err' = NoExc]_vars

\* two start_database_connection calls in a row, one load and one initialize
C5_Witness ==
    /\ pc = "idle"
    /\ prev = "start_database_connection"
    /\ op = "start_database_connection"
    /\ connection # <<>>
    /\ loadCalls = 1
    /\ initCalls = 1

\* C6: the Overridden-Attributes Record is created by an override_config_attrs
\* call, is never changed once it exists, and never holds a Guard Sentinel.
C6_RecordSetOnce ==
    /\ [](overridden # <<>> => \A a \in EntryPoints : ~IsSentinel(overridden[1][a]))
    /\ [][overridden # <<>> => overridden' = overridden]_vars
    /\ [][(overridden = <<>> /\ overridden' # <<>>)
           => (override_config_attrs \/ ltc_override_config_attrs)]_vars

\* override_config_attrs called twice in a row after the loader had created
\* the record
C6_Witness ==
    /\ op = "override_config_attrs"
    /\ run = 2
    /\ loadCalls >= 1
    /\ overridden = <<[a \in EntryPoints |-> Real(a)]>>
    /\ GuardsInstalled

\* C7: restore_config_attrs, called while no override_config_attrs call has
\* created the record, does not raise, leaves the three live entry points as
\* they are and creates no record.
C7_RestoreWithoutOverride ==
    [][(overridden = <<>> /\ (restore_config_attrs \/ ltc_restore_config_attrs))
        => /\ err' = NoExc
           /\ live' = live
           /\ overridden' = <<>>]_vars

\* restore_config_attrs returned with no record in existence
C7_Witness ==
    /\ pc = "idle"
    /\ op = "restore_config_attrs"
    /\ overridden = <<>>
    /\ err = NoExc
    /\ GuardsRemoved

\* C8: a block_load_conf call in which the Config Store removes the path or
\* reports it not found returns normally with the path absent from the
\* autoload list; the call that directly follows a block_load_conf call that
\* removed the path meets the not-found condition and swallows it.
C8_BlockTwice ==
    /\ [][(block_load_conf /\ raised' \in {NoExc, NotFound})
           => (err' = NoExc /\ ProdConf \notin configFiles')]_vars
    /\ [][(op = "block_load_conf" /\ raised = NoExc /\ block_load_conf
              /\ raised' \notin {OtherRuntimeError, OtherError})
           => (raised' = NotFound /\ err' = NoExc /\ configFiles' = configFiles)]_vars

\* the second of two block_load_conf calls in a row swallowed not-found
C8_Witness ==
    /\ pc = "idle"
    /\ prev = "block_load_conf"
    /\ op = "block_load_conf"
    /\ raised = NotFound
    /\ err = NoExc
    /\ ProdConf \notin configFiles

\* C9: every exception of remove_config_file other than the not-found
\* condition leaves block_load_conf as the exception it was.
C9_OnlyNotFoundSwallowed ==
    (pc = "idle" /\ op = "block_load_conf" /\ raised \notin {NoExc, NotFound})
        => err = raised

\* C10: between tests no patch that the last test's setUp started is active.
C10_NoPatchLeaks ==
    tphase = "none" => started \cap active = {}

\* C11: after a tearDown in which a stop() raised, no patch of the test but
\* the one whose stop() raised is still active.
C11_StopsIndependent ==
    (tphase = "none" /\ tresult = "tearDown error")
        => Cardinality(started \cap active) <= 1

\* C12: validate_auth(op) passes exactly when the is_authorized mock was
\* called once in all and the third argument of that call is op.
C12_ValidateAuth ==
    [][body_validate_auth
        => ((tresult' = "validated")
              <=> (Len(authCalls) = 1 /\ authCalls[1][3] = vop'))]_vars

\* one "read" call, then validate_auth("read") passed
C12_Witness ==
    /\ tphase = "body"
    /\ tresult = "validated"
    /\ vop = "read"
    /\ Len(authCalls) = 1
    /\ authCalls[1][3] = "read"

\* '/mock', then '/' and the segment for each segment in order, then '/'
RECURSIVE SlashJoined(_)
SlashJoined(args) ==
    IF args = <<>> THEN <<>>
    ELSE <<Sep>> \o Head(args) \o SlashJoined(Tail(args))

ClaimedUri(args) == Mock \o SlashJoined(args) \o <<Sep>>

\* no segment starts with the separator, and none but the last is empty or
\* ends with the separator
PlainSegments(args) ==
    \A i \in 1..Len(args) :
        /\ ~StartsWithSep(args[i])
        /\ i < Len(args) => (args[i] # <<>> /\ ~EndsWithSep(args[i]))

\* C13 as stated: for every sequence of segments the result is the claimed one.
C13_EverySegmentSequence ==
    uri # <<>> => uri = ClaimedUri(uriArgs)

\* C13 amended: for the sequences of plain segments the result is '/mock',
\* '/' + segment for each segment, and a trailing '/'; for ("units", "42") it
\* is '/mock/units/42/', and with no segment it is the default return value
\* of the mocked uri_path.
C13_PlainSegmentSequences ==
    /\ (uri # <<>> /\ PlainSegments(uriArgs)) => uri = ClaimedUri(uriArgs)
    /\ (uri # <<>> /\ uriArgs = << <<"units">>, <<"42">> >>)
          => uri = <<Sep, "mock", Sep, "units", Sep, "42", Sep>>
    /\ (uri # <<>> /\ uriArgs = <<>> /\ tphase = "body") => uri = mockUriReturn

\* get_mock_uri_path("units", "42") was called in a test body
C13_Witness ==
    /\ tphase = "body"
    /\ uriArgs = << <<"units">>, <<"42">> >>
    /\ uri = <<Sep, "mock", Sep, "units", Sep, "42", Sep>>

\* outside the plain sequences the result is never the claimed one
C13_OnlyPlain ==
    (uri # <<>> /\ ~PlainSegments(uriArgs)) => uri # ClaimedUri(uriArgs)

LoaderOps == {"_load_test_config", "start_database_connection"}
LoaderPcs == {"block_load_conf", "restore_config_attrs", "load_configuration",
              "set_database_name", "set_storage_dir", "stop_logging",
              "start_logging", "override_config_attrs"}

\* C14: in a test run (start_database_connection calls and guarded-mutator
\* calls, with collaborators that may fail), once the loader has installed
\* the guards they are installed whenever the loader is not executing.
C14_GuardsStayInstalled ==
    (overridden # <<>> /\ pc \notin LoaderPcs) => GuardsInstalled

\* C15: connection.initialize is invoked at most once, whatever the outcome
\* of each start_database_connection call.
C15_InitializeAtMostOnce ==
    initCalls <= 1

\* C16: the loader never ends in the tamper error: the guards are removed
\* while load_configuration and the two config.set calls are about to run,
\* and no call of the loader raises the tamper error.
C16_LoaderNeverTampers ==
    /\ pc \in {"load_configuration", "set_database_name", "set_storage_dir"}
          => GuardsRemoved
    /\ op \in LoaderOps => (err.cls # TamperError /\ raised.cls # TamperError)

\* the loader, called right after override_config_attrs, ran to its end
C16_Witness ==
    /\ pc = "idle"
    /\ prev = "override_config_attrs"
    /\ op = "_load_test_config"
    /\ steps = StepOrder
    /\ err = NoExc

\* the order of the loader's steps as the claim gives it
C17Order == <<"block_load_conf", "restore_config_attrs", "load_configuration",
              "set_database_name", "set_storage_dir", "stop_logging",
              "start_logging", "override_config_attrs">>

\* where the loader is, against the claimed order
LoaderInOrder ==
    /\ Len(steps) <= Len(C17Order)
    /\ \A i \in 1..Len(steps) : steps[i] = C17Order[i]
    /\ pc \in LoaderPcs => pc = C17Order[Len(steps) + 1]
    /\ pc = "initialize" => steps = C17Order
    /\ pc \in {"stop_logging", "start_logging", "override_config_attrs"}
          => (cfg.dbName = TestDbName /\ cfg.storageDir = TestStorageDir
              /\ GuardsRemoved)
    /\ pc = "start_logging" => logging = "stopped"
    /\ pc = "override_config_attrs" => logging = "started"

\* a step of the loader completes, or raises and ends the loader
LoaderStepOutcome ==
    pc \in LoaderPcs
        => \/ /\ err' = NoExc
              /\ steps' = Append(steps, pc)
              /\ pc' \in LoaderPcs \cup {"idle", "initialize"}
           \/ /\ err' # NoExc
              /\ err' = raised'
              /\ pc' = "idle"
              /\ steps' = steps

\* C17: the loader runs block, restore, reload, set name, set directory, stop
\* logging, start logging, install guards in this order; logging restarts
\* after both settings are written and before the guards are back; a step
\* that raises ends the loader with that exception and no later step runs.
C17_LoaderOrder ==
    []LoaderInOrder /\ [][LoaderStepOutcome]_vars

\* logging was restarted on the written settings, the guards are still off
C17_Witness ==
    /\ pc = "override_config_attrs"
    /\ Len(steps) = 7
    /\ steps[6] = "stop_logging" /\ steps[7] = "start_logging"
    /\ logging = "started"
    /\ cfg.dbName = TestDbName /\ cfg.storageDir = TestStorageDir

\* C18: every override_config_attrs call, the first or a later one, with the
\* guards installed or removed, leaves a Guard Sentinel at each of the three
\* entry points, and a call made when the record exists leaves the record
\* as it is.
C18_OverrideInstalls ==
    [][(override_config_attrs \/ ltc_override_config_attrs)
        => /\ \A a \in EntryPoints : IsSentinel(live'[a])
           /\ overridden # <<>> => overridden' = overridden]_vars

\* a later override_config_attrs call, made after restore_config_attrs had
\* removed the guards
C18_Witness ==
    /\ op = "override_config_attrs"
    /\ prev = "restore_config_attrs"
    /\ loadCalls >= 1
    /\ overridden # <<>>
    /\ GuardsInstalled

\* C19 as stated: a drop_database call destroys the database the Config
\* Store names at that time.
C19_DropsConfiguredName ==
    (pc = "idle" /\ op = "drop_database" /\ err = NoExc) => cfg.dbName \in dropped

\* C19 amended: a drop_database call made while the connection is set
\* destroys the database the connection was opened on, which is
\* pulp_unittest, and no database of another name is ever destroyed.
C19_DropsConnectedDatabase ==
    /\ [](dropped \subseteq {TestDbName})
    /\ [][(drop_database /\ connection # <<>>)
           => (connection[1] = TestDbName /\ dropped' = dropped \cup {connection[1]})]_vars

\* the database was dropped while the Config Store named another one
C19_Witness ==
    /\ pc = "idle"
    /\ op = "drop_database"
    /\ err = NoExc
    /\ dropped = {TestDbName}
    /\ cfg.dbName # TestDbName

====
